---- MODULE Spec2Model ----
(***************************************************************************)
(* Cockpit Crontab Manager (src/cronmanager/app.js): the crontab document  *)
(* model (parseCrontab, validateCron, addEntry, deleteEntryAt) and the     *)
(* load / install protocol (loadCrontab, installCrontab) run over          *)
(* cockpit.spawn.                                                          *)
(*                                                                         *)
(* Text is a sequence of one-character strings, so trimming, splitting and *)
(* joining are computed character by character as the JavaScript does.     *)
(***************************************************************************)
EXTENDS Integers, Sequences, FiniteSets, Bags, TLC

(***************************************************************************)
(* Bounds of the model.                                                    *)
(***************************************************************************)
MaxTasks == 2      \* async operations in flight at once
MaxEvents == 2     \* refreshes, selections, submits and confirmed deletions in one run
MaxTextLen == 4    \* length of the crontab texts drawn for the document laws
MaxExprLen == 15   \* length of the schedule expressions drawn for validateCron

(***************************************************************************)
(* Strings                                                                 *)
(***************************************************************************)
NL == "\n"
CR == "\r"

\* JavaScript white space (\s, String.prototype.trim) within the alphabet used
IsSpace(c) == c \in {" ", "\t", NL, CR}

RECURSIVE TrimStart(_)
TrimStart(s) ==
  IF s = <<>> THEN <<>>
  ELSE IF IsSpace(Head(s)) THEN TrimStart(Tail(s)) ELSE s

RECURSIVE TrimEnd(_)
TrimEnd(s) ==
  IF s = <<>> THEN <<>>
  ELSE IF IsSpace(s[Len(s)]) THEN TrimEnd(SubSeq(s, 1, Len(s) - 1)) ELSE s

Trim(s) == TrimEnd(TrimStart(s))

EndsWith(s, c) == Len(s) > 0 /\ s[Len(s)] = c

\* Array.prototype.join
RECURSIVE Join(_, _)
Join(parts, sep) ==
  IF parts = <<>> THEN <<>>
  ELSE IF Len(parts) = 1 THEN parts[1]
  ELSE parts[1] \o sep \o Join(Tail(parts), sep)

\* raw.split(/\r?\n/): a line feed, with the carriage return before it if
\* there is one, separates two lines; the empty string gives one empty line.
RECURSIVE SplitLinesAcc(_, _, _, _)
SplitLinesAcc(raw, i, cur, out) ==
  IF i > Len(raw) THEN Append(out, cur)
  ELSE IF raw[i] = NL
       THEN SplitLinesAcc(raw, i + 1, <<>>,
              Append(out, IF EndsWith(cur, CR)
                          THEN SubSeq(cur, 1, Len(cur) - 1) ELSE cur))
       ELSE SplitLinesAcc(raw, i + 1, Append(cur, raw[i]), out)

SplitLines(raw) == SplitLinesAcc(raw, 1, <<>>, <<>>)

\* s.split(/\s+/): every maximal run of white space separates two fields; a
\* run at the start or at the end leaves an empty field there.
RECURSIVE SplitSpaceAcc(_, _, _, _, _)
SplitSpaceAcc(s, i, cur, out, inSep) ==
  IF i > Len(s) THEN Append(out, cur)
  ELSE IF IsSpace(s[i])
       THEN IF inSep THEN SplitSpaceAcc(s, i + 1, cur, out, TRUE)
            ELSE SplitSpaceAcc(s, i + 1, <<>>, Append(out, cur), TRUE)
       ELSE SplitSpaceAcc(s, i + 1, Append(cur, s[i]), out, FALSE)

SplitSpace(s) == SplitSpaceAcc(s, 1, <<>>, <<>>, FALSE)

\* all texts over an alphabet up to a length
TextsOfLen(alphabet, n) == [1..n -> alphabet]

TextsUpTo(alphabet, n) == UNION {TextsOfLen(alphabet, k) : k \in 0..n}

(***************************************************************************)
(* validateCron, parseCrontab                                              *)
(***************************************************************************)
\* a mutation of validateCron: the upper limit on the field count is dropped
validateCronNoUpper(expr) ==
  LET parts == SplitSpace(Trim(expr))
  IN IF Len(parts) < 5 THEN FALSE
     ELSE \A k \in 1..Len(parts) : parts[k] # <<>>

\* a mutation of validateCron: the lower limit on the field count is dropped
validateCronNoLower(expr) ==
  LET parts == SplitSpace(Trim(expr))
  IN IF Len(parts) > 7 THEN FALSE
     ELSE \A k \in 1..Len(parts) : parts[k] # <<>>

validateCron(expr) ==
  LET parts == SplitSpace(Trim(expr))
  IN IF Len(parts) < 5 \/ Len(parts) > 7 THEN FALSE
     ELSE \A k \in 1..Len(parts) : parts[k] # <<>>

\* /^\s*#/.test(l)
IsCommentLine(l) == LET t == TrimStart(l) IN t # <<>> /\ Head(t) = "#"

LineType(l) ==
  IF Trim(l) = <<>> THEN "blank"
  ELSE IF IsCommentLine(l) THEN "comment" ELSE "entry"

parseCrontab(raw) ==
  LET lines == SplitLines(raw)
  IN [k \in 1..Len(lines) |->
        [type |-> LineType(lines[k]), text |-> lines[k], lineIdx |-> k - 1]]

\* parsedLines.map(p => p.text)
LineTexts(doc) == [k \in 1..Len(doc) |-> doc[k].text]

(***************************************************************************)
(* Content builders of addEntry, deleteEntryAt and the editor              *)
(***************************************************************************)
\* expr.trim() + ' ' + cmd.trim()
AddLine(expr, cmd) == Trim(expr) \o <<" ">> \o Trim(cmd)

AddContent(raw, expr, cmd) ==
  IF raw # <<>> /\ Trim(raw) # <<>>
  THEN TrimEnd(raw) \o <<NL>> \o AddLine(expr, cmd) \o <<NL>>
  ELSE AddLine(expr, cmd) \o <<NL>>

\* parsedLines.filter((_, i) => i !== parsedIndex), parsedIndex counted from 0
RemoveAt(doc, parsedIndex) ==
  IF parsedIndex >= 0 /\ parsedIndex < Len(doc)
  THEN SubSeq(doc, 1, parsedIndex) \o SubSeq(doc, parsedIndex + 2, Len(doc))
  ELSE doc

\* lines.map(p => p.text).join("\n") + "\n"
Serialize(doc) == Join(LineTexts(doc), <<NL>>) \o <<NL>>

DeleteContent(doc, parsedIndex) == Serialize(RemoveAt(doc, parsedIndex))

\* content.endsWith('\n') ? content : content + '\n'
EditorContent(content) ==
  IF EndsWith(content, NL) THEN content ELSE content \o <<NL>>

(***************************************************************************)
(* Words of the command lines                                              *)
(***************************************************************************)
W_crontab == <<"c", "r", "o", "n", "t", "a", "b">>
W_mktemp == <<"m", "k", "t", "e", "m", "p">>
W_rm == <<"r", "m">>
W_sh == <<"/", "b", "i", "n", "/", "s", "h">>
W_systemctl == <<"s", "y", "s", "t", "e", "m", "c", "t", "l">>
W_which == <<"w", "h", "i", "c", "h">>
W_isActive == <<"i", "s", "-", "a", "c", "t", "i", "v", "e">>
W_active == <<"a", "c", "t", "i", "v", "e">>
W_cron == <<"c", "r", "o", "n">>
W_crond == <<"c", "r", "o", "n", "d">>
W_u == <<"-", "u">>
W_l == <<"-", "l">>
W_t == <<"-", "t">>
W_c == <<"-", "c">>
W_f == <<"-", "f">>
W_template ==
  <<"c", "o", "c", "k", "p", "i", "t", "-", "c", "r", "o", "n", "-",
    "X", "X", "X", "X", "X", "X">>
W_catTo == <<"c", "a", "t", " ", ">", " ">>
W_hereOpen == <<" ", "<", "<", "'", "E", "O", "F", "'", NL>>
W_hereClose == <<NL, "E", "O", "F", NL>>
W_EOF == <<"E", "O", "F">>

Alice == <<"a", "l", "i", "c", "e">>
Root == <<"r", "o", "o", "t">>
NoUser == <<>>
Users == {Alice, Root}
\* the account the session is logged in as on the host
LoginUser == Alice

(***************************************************************************)
(* State                                                                   *)
(***************************************************************************)
VARIABLES
  currentUser,      \* let currentUser: the detected login name, or none
  userSelectValue,  \* userSelect.value
  rawCrontab,       \* let rawCrontab
  parsedLines,      \* let parsedLines
  toDeleteIndex,    \* let toDeleteIndex
  statusText,       \* statusEl.textContent, by kind
  errorMsg,         \* errorContainer.textContent, by kind ("" when hidden)
  tasks,            \* the async operations suspended at an await, with
                    \* the command each has issued (a bag)
  hostCrontab,      \* host: each account's crontab file
  hostFiles,        \* host: the temp files that exist, with their content
  mktempCount,      \* host: temp names handed out so far
  hostHasCrontab,   \* host: the crontab executable is installed
  events,           \* user requests so far
  confirmText,      \* confirmText.textContent: the line shown in the prompt
  exprArg,          \* validateCron: the expression it is applied to
  validResult       \* validateCron: "unset", or its result

vars ==
  <<currentUser, userSelectValue, rawCrontab, parsedLines, toDeleteIndex,
    statusText, errorMsg, tasks, hostCrontab, hostFiles, mktempCount, hostHasCrontab, events,
    confirmText, exprArg, validResult>>

sessionVars ==
  <<currentUser, userSelectValue, rawCrontab, parsedLines, toDeleteIndex,
    statusText, errorMsg, tasks, hostCrontab, hostFiles, mktempCount, hostHasCrontab, events,
    confirmText>>

NoIndex == -1

(***************************************************************************)
(* Failures of cockpit.spawn and their classification                      *)
(***************************************************************************)
W_accessDenied ==
  <<"a", "c", "c", "e", "s", "s", "-", "d", "e", "n", "i", "e", "d">>
W_permissionDenied ==
  <<"p", "e", "r", "m", "i", "s", "s", "i", "o", "n", " ",
    "d", "e", "n", "i", "e", "d">>
W_accessDeniedMsg ==
  <<"a", "c", "c", "e", "s", "s", " ", "d", "e", "n", "i", "e", "d">>
W_authorization ==
  <<"a", "u", "t", "h", "o", "r", "i", "z", "a", "t", "i", "o", "n">>
W_notAuthorized ==
  <<"n", "o", "t", " ", "a", "u", "t", "h", "o", "r", "i", "z", "e", "d">>
W_noCrontabFor ==
  <<"n", "o", " ", "c", "r", "o", "n", "t", "a", "b", " ", "f", "o", "r">>
W_exit1 == <<"e", "x", "i", "t", " ", "1">>
W_exit127 == <<"e", "x", "i", "t", " ", "1", "2", "7">>

UpperCase ==
  <<"A", "B", "C", "D", "E", "F", "G", "H", "I", "J", "K", "L", "M",
    "N", "O", "P", "Q", "R", "S", "T", "U", "V", "W", "X", "Y", "Z">>
LowerCase ==
  <<"a", "b", "c", "d", "e", "f", "g", "h", "i", "j", "k", "l", "m",
    "n", "o", "p", "q", "r", "s", "t", "u", "v", "w", "x", "y", "z">>

LowerChar(c) ==
  IF \E k \in 1..Len(UpperCase) : UpperCase[k] = c
  THEN LowerCase[CHOOSE k \in 1..Len(UpperCase) : UpperCase[k] = c]
  ELSE c

\* String.prototype.toLowerCase
ToLowerCase(s) == [k \in 1..Len(s) |-> LowerChar(s[k])]

\* hay.indexOf(needle) !== -1
Contains(hay, needle) ==
  \E k \in 0..(Len(hay) - Len(needle)) :
    SubSeq(hay, k + 1, k + Len(needle)) = needle

OkResp(out) ==
  [state |-> "ok", out |-> out, message |-> <<>>, problem |-> <<>>]
ErrResp(message, problem) ==
  [state |-> "err", out |-> <<>>, message |-> message, problem |-> problem]

\* /permission denied|access denied|authorization|not authorized/i.test(msg)
MatchesDenied(msg) ==
  LET m == ToLowerCase(msg)
  IN \/ Contains(m, W_permissionDenied)
     \/ Contains(m, W_accessDeniedMsg)
     \/ Contains(m, W_authorization)
     \/ Contains(m, W_notAuthorized)

isAccessDenied(err) ==
  \/ err.problem = W_accessDenied
  \/ MatchesDenied(err.message)

\* the parts of the failure that are set, joined by line feeds
errorText(err) ==
  Join(SelectSeq(<<err.out, err.message, err.problem>>,
                 LAMBDA part : part # <<>>), <<NL>>)

IsNoCrontab(err) == Contains(ToLowerCase(errorText(err)), W_noCrontabFor)

(***************************************************************************)
(* Target identity and command lines                                       *)
(***************************************************************************)
\* userSelect.value || currentUser || null, for a given selection
SelectedUserOf(selected, current) ==
  IF selected # <<>> THEN selected ELSE current

\* a mutation of DifferentUserOf: no command is elevated
DifferentUserNever(selected, current) == FALSE

DifferentUserOf(selected, current) ==
  LET target == SelectedUserOf(selected, current)
  IN IF target = NoUser THEN FALSE
     ELSE IF current = NoUser THEN TRUE
     ELSE target # current

getSelectedUserValue == SelectedUserOf(userSelectValue, currentUser)

getUserForCrontabFlag == getSelectedUserValue

isDifferentUser == DifferentUserOf(userSelectValue, currentUser)

LoadArgs(userFlag) ==
  IF userFlag # NoUser THEN <<W_crontab, W_u, userFlag, W_l>>
  ELSE <<W_crontab, W_l>>

MktempArgs == <<W_mktemp, W_t, W_template>>

WriteArgs(tmp, newContent) ==
  <<W_sh, W_c, W_catTo \o tmp \o W_hereOpen \o newContent \o W_hereClose>>

InstallArgs(userFlag, tmp) ==
  IF userFlag # NoUser THEN <<W_crontab, W_u, userFlag, tmp>>
  ELSE <<W_crontab, tmp>>

RmArgs(tmp) == <<W_rm, W_f, tmp>>

(***************************************************************************)
(* The host behind cockpit.spawn                                           *)
(***************************************************************************)
DigitChars == <<"0", "1", "2", "3", "4", "5", "6", "7", "8", "9">>

\* the name mktemp hands out on its n-th call
TmpPath(n) == <<"/", "t", "m", "p", "/", "c", DigitChars[n + 1]>>

FileExists(files, path) == \E f \in files : f.path = path
FileContent(files, path) == (CHOOSE f \in files : f.path = path).content
WithoutFile(files, path) == {f \in files : f.path # path}
WithFile(files, path, content) ==
  WithoutFile(files, path) \cup {[path |-> path, content |-> content]}

\* text.split("\n")
RECURSIVE SplitFeedAcc(_, _, _, _)
SplitFeedAcc(text, i, cur, out) ==
  IF i > Len(text) THEN Append(out, cur)
  ELSE IF text[i] = NL THEN SplitFeedAcc(text, i + 1, <<>>, Append(out, cur))
       ELSE SplitFeedAcc(text, i + 1, Append(cur, text[i]), out)

SplitFeed(text) == SplitFeedAcc(text, 1, <<>>, <<>>)

RECURSIVE ConcatLines(_)
ConcatLines(lines) ==
  IF lines = <<>> THEN <<>>
  ELSE Head(lines) \o <<NL>> \o ConcatLines(Tail(lines))

\* What /bin/sh -c does with  cat > PATH <<'EOF' ... : the lines up to the
\* first line that is exactly EOF are the file's content; lines after it are
\* run as commands, the last of them being the script's own closing EOF,
\* which is no command (exit status 127).
HereDoc(script) ==
  LET lines == SplitFeed(script)
      first == lines[1]
      path == SubSeq(first, Len(W_catTo) + 1, Len(first) - (Len(W_hereOpen) - 1))
      rest == Tail(lines)
      d == CHOOSE k \in 1..Len(rest) :
             rest[k] = W_EOF /\ \A j \in 1..(k - 1) : rest[j] # W_EOF
  IN [path |-> path,
      content |-> ConcatLines(SubSeq(rest, 1, d - 1)),
      clean |-> SubSeq(rest, d + 1, Len(rest)) = << <<>> >>]

\* the account whose crontab  crontab ...  acts on
CrontabTarget(argv) == IF argv[2] = W_u THEN argv[3] ELSE LoginUser

NoCrontabOf(user) == W_noCrontabFor \o <<" ">> \o user

DeniedErr == ErrResp(<<>>, W_accessDenied)
GenericErr == ErrResp(W_exit1, <<>>)
HostFailures == {DeniedErr, GenericErr}

FreeTask ==
  [pc |-> "free", caller |-> "none", newContent |-> <<>>, tmp |-> <<>>,
   userFlag |-> NoUser, requestedFor |-> NoUser, argv |-> <<>>,
   superuser |-> FALSE,
   expr |-> <<>>, cmd |-> <<>>, parsedIndex |-> NoIndex]

\* the operations in flight
InFlight == BagToSet(tasks)

\* an async function is called and runs up to its first await
Called(task) ==
  /\ BagCardinality(tasks) < MaxTasks
  /\ tasks' = tasks (+) SetToBag({task})

\* an operation goes on from one await to its next
Continued(task, next) == tasks' = (tasks (-) SetToBag({task})) (+) SetToBag({next})

\* an operation returns
Returned(task) == tasks' = tasks (-) SetToBag({task})

\* what the host can answer to the command task t has issued, and what the
\* command does there: a record [resp, crontab, files, count]
HostAnswer(resp, crontab, files, count) ==
  [resp |-> resp, crontab |-> crontab, files |-> files, count |-> count]

\* the command fails on the host and changes nothing there
HostFail(failure) == HostAnswer(failure, hostCrontab, hostFiles, mktempCount)

\* crontab [-u user] -l
HostList(argv) ==
  LET user == CrontabTarget(argv)
  IN HostAnswer(IF hostCrontab[user].exists
                THEN OkResp(hostCrontab[user].content)
                ELSE ErrResp(NoCrontabOf(user), <<>>),
                hostCrontab, hostFiles, mktempCount)

\* mktemp -t cockpit-cron-XXXXXX
HostMktemp ==
  HostAnswer(OkResp(TmpPath(mktempCount + 1) \o <<NL>>), hostCrontab,
             WithFile(hostFiles, TmpPath(mktempCount + 1), <<>>),
             mktempCount + 1)

\* mktemp exits 0 and prints nothing
HostMktempSilent == HostAnswer(OkResp(<<>>), hostCrontab, hostFiles, mktempCount)

\* /bin/sh -c "cat > tmp <<'EOF' ..."
HostShell(argv) ==
  LET doc == HereDoc(argv[3])
  IN HostAnswer(IF doc.clean THEN OkResp(<<>>) ELSE ErrResp(W_exit127, <<>>),
                hostCrontab, WithFile(hostFiles, doc.path, doc.content),
                mktempCount)

\* crontab [-u user] file
HostReplace(argv) ==
  LET user == CrontabTarget(argv)
      file == argv[Len(argv)]
  IN IF FileExists(hostFiles, file)
     THEN HostAnswer(OkResp(<<>>),
                     [hostCrontab EXCEPT
                        ![user] = [exists |-> TRUE,
                                   content |-> FileContent(hostFiles, file)]],
                     hostFiles, mktempCount)
     ELSE HostFail(GenericErr)

\* rm -f file
HostRemove(argv) ==
  HostAnswer(OkResp(<<>>), hostCrontab, WithoutFile(hostFiles, argv[3]),
             mktempCount)

\* which crontab: found when the executable is installed
HostWhichCrontab ==
  IF hostHasCrontab THEN HostAnswer(OkResp(W_crontab \o <<NL>>), hostCrontab,
                                    hostFiles, mktempCount)
  ELSE HostFail(GenericErr)

\* which systemctl, on a host that has it
HostWhichSystemctl ==
  HostAnswer(OkResp(W_systemctl \o <<NL>>), hostCrontab, hostFiles,
             mktempCount)

\* systemctl is-active service, for a service that is active
HostIsActive ==
  HostAnswer(OkResp(W_active \o <<NL>>), hostCrontab, hostFiles, mktempCount)

HostAnswers(argv) ==
  {HostFail(failure) : failure \in HostFailures}
  \cup (IF argv[1] = W_crontab /\ ~hostHasCrontab THEN {}
        ELSE IF argv[1] = W_crontab /\ argv[Len(argv)] = W_l
        THEN {HostList(argv)}
        ELSE IF argv[1] = W_crontab THEN {HostReplace(argv)}
        ELSE IF argv[1] = W_mktemp THEN {HostMktemp, HostMktempSilent}
        ELSE IF argv[1] = W_sh THEN {HostShell(argv)}
        ELSE IF argv[1] = W_rm THEN {HostRemove(argv)}
        ELSE IF argv = <<W_which, W_crontab>> THEN {HostWhichCrontab}
        ELSE IF argv = <<W_which, W_systemctl>> THEN {HostWhichSystemctl}
        ELSE IF argv[1] = W_systemctl THEN {HostIsActive}
        ELSE {})

(***************************************************************************)
(* The session: handlers and the continuations of their awaits             *)
(***************************************************************************)
Issue(task, pc, argv, superuser) ==
  [task EXCEPT !.pc = pc, !.argv = argv, !.superuser = superuser]

\* loadCrontab up to its await, for the selection it finds
LoadCall(task, pc, selected) ==
  [Issue(task, pc, LoadArgs(SelectedUserOf(selected, currentUser)),
         DifferentUserOf(selected, currentUser))
   EXCEPT !.userFlag = SelectedUserOf(selected, currentUser)]

\* installCrontab(newContent) up to its first await
InstallCall(task, newContent) ==
  [Issue(task, "mktemp", MktempArgs, isDifferentUser)
   EXCEPT !.newContent = newContent, !.requestedFor = getUserForCrontabFlag]

\* refreshBtn click
RefreshClick ==
  /\ events < MaxEvents
  /\ Called(LoadCall([FreeTask EXCEPT !.caller = "refresh"], "load",
                userSelectValue))
  /\ statusText' = "Loading"
  /\ events' = events + 1
  /\ UNCHANGED <<currentUser, userSelectValue, rawCrontab, parsedLines,
                 toDeleteIndex, errorMsg, hostCrontab, hostFiles, mktempCount, hostHasCrontab,
                 confirmText, exprArg, validResult>>

\* userSelect change
UserSelectChange(user) ==
  /\ events < MaxEvents
  /\ userSelectValue # <<>>
  /\ user # userSelectValue
  /\ Called(LoadCall([FreeTask EXCEPT !.caller = "change"], "load", user))
  /\ userSelectValue' = user
  /\ rawCrontab' = <<>>
  /\ parsedLines' = <<>>
  /\ statusText' = "Loading"
  /\ events' = events + 1
  /\ UNCHANGED <<currentUser, toDeleteIndex, errorMsg, hostCrontab, hostFiles,
                 mktempCount, hostHasCrontab, confirmText, exprArg, validResult>>

\* addForm submit, with the values of the two fields
AddFormSubmit(exprValue, cmdValue) ==
  LET expr == Trim(exprValue)
      cmd == Trim(cmdValue)
  IN /\ events < MaxEvents
     /\ events' = events + 1
     /\ IF expr = <<>> \/ cmd = <<>>
        THEN /\ errorMsg' = "Both schedule and command are required."
             /\ UNCHANGED <<tasks, statusText>>
        ELSE IF ~validateCron(expr)
        THEN /\ errorMsg' = "Invalid cron expression."
             /\ UNCHANGED <<tasks, statusText>>
        ELSE /\ errorMsg' = ""
             /\ statusText' = "Installing"
             /\ Called(InstallCall(
                         [FreeTask EXCEPT !.caller = "addEntry",
                                          !.expr = expr, !.cmd = cmd],
                         AddContent(rawCrontab, expr, cmd)))
     /\ UNCHANGED <<currentUser, userSelectValue, rawCrontab, parsedLines,
                    toDeleteIndex, hostCrontab, hostFiles, mktempCount, hostHasCrontab,
                    confirmText, exprArg, validResult>>

\* the Delete button of the row rendered for parsedLines[index]
ConfirmDelete(index) ==
  /\ rawCrontab # <<>> /\ Trim(rawCrontab) # <<>>
  /\ index \in 0..(Len(parsedLines) - 1)
  /\ parsedLines[index + 1].type = "entry"
  /\ toDeleteIndex' = index
  /\ confirmText' = parsedLines[index + 1].text
  /\ UNCHANGED <<currentUser, userSelectValue, rawCrontab, parsedLines,
                 statusText, errorMsg, tasks, hostCrontab, hostFiles,
                 mktempCount, hostHasCrontab, events, exprArg, validResult>>

\* confirmNo click
ConfirmNo ==
  /\ toDeleteIndex # NoIndex
  /\ toDeleteIndex' = NoIndex
  /\ UNCHANGED <<currentUser, userSelectValue, rawCrontab, parsedLines,
                 statusText, errorMsg, tasks, hostCrontab, hostFiles,
                 mktempCount, hostHasCrontab, events, confirmText, exprArg, validResult>>

\* confirmYes click: deleteEntryAt(toDeleteIndex) up to its first await
ConfirmYes ==
  /\ events < MaxEvents
  /\ toDeleteIndex # NoIndex
  /\ Called(InstallCall(
         [FreeTask EXCEPT !.caller = "deleteEntryAt",
                          !.parsedIndex = toDeleteIndex],
         DeleteContent(parsedLines, toDeleteIndex)))
  /\ statusText' = "Installing"
  /\ toDeleteIndex' = NoIndex
  /\ events' = events + 1
  /\ UNCHANGED <<currentUser, userSelectValue, rawCrontab, parsedLines,
                 errorMsg, hostCrontab, hostFiles, mktempCount, hostHasCrontab, confirmText, exprArg,
                 validResult>>

\* editorSave click, with the text in the editor
EditorSave(content) ==
  /\ events < MaxEvents
  /\ Called(InstallCall([FreeTask EXCEPT !.caller = "editorSave"],
                   EditorContent(content)))
  /\ statusText' = "Installing"
  /\ events' = events + 1
  /\ UNCHANGED <<currentUser, userSelectValue, rawCrontab, parsedLines,
                 toDeleteIndex, errorMsg, hostCrontab, hostFiles, mktempCount, hostHasCrontab,
                 confirmText, exprArg, validResult>>

W_failedTemp ==
  <<"F", "a", "i", "l", "e", "d", " ", "t", "o", " ", "c", "r", "e", "a", "t",
    "e", " ", "t", "e", "m", "p", " ", "f", "i", "l", "e", " ", "o", "n", " ",
    "h", "o", "s", "t", ".">>

\* a mutation of InstallCatch: after the report the run goes on to reload
InstallCatchReloads(task, err) ==
  /\ errorMsg' = IF isAccessDenied(err)
                 THEN "Admin access required to write crontab"
                 ELSE "Failed to install crontab"
  /\ statusText' = "Install failed"
  /\ Continued(task, LoadCall(task, "reload", userSelectValue))

\* the catch block of installCrontab; the run ends
InstallCatch(task, err) ==
  /\ errorMsg' = IF isAccessDenied(err)
                 THEN "Admin access required to write crontab"
                 ELSE "Failed to install crontab"
  /\ statusText' = "Install failed"
  /\ Returned(task)

\* a mutation of ResumeMktemp: the path is not tested
ResumeMktempAnyPath(task, resp) ==
  LET tmp == Trim(resp.out)
  IN /\ task.pc = "mktemp"
     /\ IF resp.state = "err" THEN InstallCatch(task, resp)
        ELSE /\ Continued(task,
                  Issue([task EXCEPT !.tmp = tmp], "write",
                        WriteArgs(tmp, task.newContent), isDifferentUser))
             /\ UNCHANGED <<errorMsg, statusText>>
     /\ UNCHANGED <<currentUser, userSelectValue, rawCrontab, parsedLines,
                    toDeleteIndex, events, confirmText, exprArg, validResult>>

\* after  await spawnCommand(["mktemp", ...])
ResumeMktemp(task, resp) ==
  LET tmp == Trim(resp.out)
  IN /\ task.pc = "mktemp"
     /\ IF resp.state = "err" THEN InstallCatch(task, resp)
        ELSE IF tmp = <<>> THEN InstallCatch(task, ErrResp(W_failedTemp, <<>>))
        ELSE /\ Continued(task,
                  Issue([task EXCEPT !.tmp = tmp], "write",
                        WriteArgs(tmp, task.newContent), isDifferentUser))
             /\ UNCHANGED <<errorMsg, statusText>>
     /\ UNCHANGED <<currentUser, userSelectValue, rawCrontab, parsedLines,
                    toDeleteIndex, events, confirmText, exprArg, validResult>>

\* after  await spawnCommand(writeCmd)
ResumeWrite(task, resp) ==
  /\ task.pc = "write"
  /\ IF resp.state = "err" THEN InstallCatch(task, resp)
     ELSE /\ Continued(task,
               Issue([task EXCEPT !.userFlag = getUserForCrontabFlag],
                     "install", InstallArgs(getUserForCrontabFlag, task.tmp),
                     isDifferentUser))
          /\ UNCHANGED <<errorMsg, statusText>>
  /\ UNCHANGED <<currentUser, userSelectValue, rawCrontab, parsedLines,
                 toDeleteIndex, events, confirmText, exprArg, validResult>>

\* after  await spawnCommand(installArgs)
ResumeInstall(task, resp) ==
  /\ task.pc = "install"
  /\ IF resp.state = "err" THEN InstallCatch(task, resp)
     ELSE /\ Continued(task,
               Issue(task, "rm", RmArgs(task.tmp), isDifferentUser))
          /\ UNCHANGED <<errorMsg, statusText>>
  /\ UNCHANGED <<currentUser, userSelectValue, rawCrontab, parsedLines,
                 toDeleteIndex, events, confirmText, exprArg, validResult>>

\* after  await spawnCommand(["rm", "-f", tmp]); on success the run goes on
\* into loadCrontab, up to its await
ResumeRm(task, resp) ==
  /\ task.pc = "rm"
  /\ IF resp.state = "err" THEN InstallCatch(task, resp)
     ELSE /\ Continued(task, LoadCall(task, "reload", userSelectValue))
          /\ statusText' = "Loading"
          /\ UNCHANGED errorMsg
  /\ UNCHANGED <<currentUser, userSelectValue, rawCrontab, parsedLines,
                 toDeleteIndex, events, confirmText, exprArg, validResult>>

\* a mutation of ResumeLoad: a failed reload goes to installCrontab's catch
ResumeLoadEscalates(task, resp) ==
  LET err == resp
  IN /\ task.pc \in {"load", "reload"}
     /\ IF resp.state = "err" /\ task.pc = "reload"
        THEN /\ InstallCatch(task, err)
             /\ UNCHANGED <<rawCrontab, parsedLines>>
        ELSE IF resp.state = "ok"
        THEN /\ Returned(task)
             /\ rawCrontab' = resp.out
             /\ parsedLines' = parseCrontab(resp.out)
             /\ statusText' = "Crontab loaded"
             /\ UNCHANGED errorMsg
        ELSE IF isAccessDenied(err)
        THEN /\ Returned(task)
             /\ errorMsg' = "Admin access required to read crontab"
             /\ statusText' = "Permission denied"
             /\ UNCHANGED <<rawCrontab, parsedLines>>
        ELSE IF IsNoCrontab(err)
        THEN /\ Returned(task)
             /\ rawCrontab' = <<>>
             /\ parsedLines' = <<>>
             /\ statusText' = "No crontab"
             /\ UNCHANGED errorMsg
        ELSE /\ Returned(task)
             /\ errorMsg' = "Failed to read crontab"
             /\ statusText' = "Error loading crontab"
             /\ UNCHANGED <<rawCrontab, parsedLines>>
     /\ UNCHANGED <<currentUser, userSelectValue, toDeleteIndex, events,
                    confirmText, exprArg, validResult>>

\* after  await spawnCommand(args)  in loadCrontab, called by a handler
\* ("load") or by installCrontab ("reload")
ResumeLoad(task, resp) ==
  LET err == resp
  IN /\ task.pc \in {"load", "reload"}
     /\ Returned(task)
     /\ IF resp.state = "ok"
        THEN /\ rawCrontab' = resp.out
             /\ parsedLines' = parseCrontab(resp.out)
             /\ statusText' = "Crontab loaded"
             /\ UNCHANGED errorMsg
        ELSE IF isAccessDenied(err)
        THEN /\ errorMsg' = "Admin access required to read crontab"
             /\ statusText' = "Permission denied"
             /\ UNCHANGED <<rawCrontab, parsedLines>>
        ELSE IF IsNoCrontab(err)
        THEN /\ rawCrontab' = <<>>
             /\ parsedLines' = <<>>
             /\ statusText' = "No crontab"
             /\ UNCHANGED errorMsg
        ELSE /\ errorMsg' = "Failed to read crontab"
             /\ statusText' = "Error loading crontab"
             /\ UNCHANGED <<rawCrontab, parsedLines>>
     /\ UNCHANGED <<currentUser, userSelectValue, toDeleteIndex, events,
                    confirmText, exprArg, validResult>>

(***************************************************************************)
(* Inputs                                                                  *)
(***************************************************************************)
Schedule5 == <<"*", " ", "*", " ", "*", " ", "*", " ", "*">>
Schedule4 == <<"*", " ", "*", " ", "*", " ", "*">>

\* crontab files found on the host when the session starts
CrontabOfAlice == <<"#", "c", NL>> \o Schedule5 \o <<" ", "x", NL, " ", NL>>
CrontabOfRoot == Schedule5 \o <<" ", "r", NL>>

NoFile == [exists |-> FALSE, content |-> <<>>]
FileOf(text) == [exists |-> TRUE, content |-> text]

InitialCrontabs == {NoFile, FileOf(CrontabOfAlice)}

\* what init() leaves behind: the user was detected and is selected; or was
\* not detected and the first listed account is selected; or was not
\* detected and no account is listed
Identities ==
  {[current |-> Alice, selected |-> Alice],
   [current |-> NoUser, selected |-> Root],
   [current |-> NoUser, selected |-> <<>>]}

\* values of the add form's two fields
AddFormInputs ==
  {[expr |-> <<" ">> \o Schedule5 \o <<" ">>, cmd |-> <<"z", " ">>],
   [expr |-> Schedule4, cmd |-> <<"z">>],
   [expr |-> Schedule5, cmd |-> <<" ">>]}

\* texts in the editor when Save is clicked
EditorInputs ==
  {Schedule5 \o <<" ", "x", NL, "E", "O", "F", NL, "#", "e">>}

(***************************************************************************)
(* The session's specification                                             *)
(***************************************************************************)
\* init() has reached its call of loadCrontab()
Init ==
  /\ \E id \in Identities :
       /\ currentUser = id.current
       /\ userSelectValue = id.selected
       /\ tasks = SetToBag(
            {[Issue([FreeTask EXCEPT !.caller = "init"], "load",
                    LoadArgs(SelectedUserOf(id.selected, id.current)),
                    DifferentUserOf(id.selected, id.current))
              EXCEPT !.userFlag = SelectedUserOf(id.selected, id.current)]})
  /\ rawCrontab = <<>>
  /\ parsedLines = <<>>
  /\ toDeleteIndex = NoIndex
  /\ statusText = "Loading"
  /\ errorMsg = ""
  /\ \E file \in InitialCrontabs :
       hostCrontab = [u \in Users |->
                        IF u = Root THEN FileOf(CrontabOfRoot) ELSE file]
  /\ hostFiles = {}
  /\ mktempCount = 0
  /\ hostHasCrontab = TRUE
  /\ events = 0
  /\ confirmText = <<>>
  /\ exprArg = <<>>
  /\ validResult = "unset"

Resume(task, resp) ==
  \/ ResumeLoad(task, resp)
  \/ ResumeMktemp(task, resp)
  \/ ResumeWrite(task, resp)
  \/ ResumeInstall(task, resp)
  \/ ResumeRm(task, resp)

\* the host runs the command task t awaits, and the task goes on from its
\* await with the answer
AnsweredWith(task, answer) ==
  /\ hostCrontab' = answer.crontab
  /\ hostFiles' = answer.files
  /\ mktempCount' = answer.count
  /\ UNCHANGED hostHasCrontab
  /\ Resume(task, answer.resp)

Answered(task) ==
  \E answer \in HostAnswers(task.argv) : AnsweredWith(task, answer)

Next ==
  \/ RefreshClick
  \/ \E user \in Users : UserSelectChange(user)
  \/ \E in \in AddFormInputs : AddFormSubmit(in.expr, in.cmd)
  \/ \E index \in 0..(Len(parsedLines) - 1) : ConfirmDelete(index)
  \/ ConfirmNo
  \/ ConfirmYes
  \/ \E content \in EditorInputs : EditorSave(content)
  \/ \E task \in InFlight : Answered(task)

Spec == Init /\ [][Next]_vars

(***************************************************************************)
(* The session from its start: init() at checkCronAvailable's first await  *)
(***************************************************************************)
services == <<W_cron, W_crond>>

WhichArgs(name) == <<W_which, name>>
IsActiveArgs(s) == <<W_systemctl, W_isActive, s>>

\* init() goes on after checkCronAvailable: the accounts are listed and one
\* is selected, then loadCrontab runs up to its await
InitLoad(task) ==
  \E id \in Identities :
    /\ id.current = currentUser
    /\ userSelectValue' = id.selected
    /\ Continued(task,
         [Issue(task, "load", LoadArgs(SelectedUserOf(id.selected, currentUser)),
                DifferentUserOf(id.selected, currentUser))
          EXCEPT !.userFlag = SelectedUserOf(id.selected, currentUser)])
    /\ statusText' = "Loading"

\* after  await cockpit.spawn(["which","crontab"]); a failure ends init()
ResumeWhichCrontab(task, resp) ==
  /\ task.pc = "whichCrontab"
  /\ IF resp.state = "err"
     THEN /\ errorMsg' = "crontab command not found"
          /\ statusText' = "Cron not available"
          /\ Returned(task)
     ELSE /\ Continued(task, Issue(task, "whichSystemctl",
                                   WhichArgs(W_systemctl), FALSE))
          /\ UNCHANGED <<errorMsg, statusText>>
  /\ UNCHANGED <<currentUser, userSelectValue, rawCrontab, parsedLines,
                 toDeleteIndex, events, confirmText, exprArg, validResult>>

\* after  await cockpit.spawn(["which","systemctl"])
ResumeWhichSystemctl(task, resp) ==
  /\ task.pc = "whichSystemctl"
  /\ IF resp.state = "err"
     THEN /\ errorMsg' = ""
          /\ InitLoad(task)
     ELSE /\ Continued(task, Issue(task, "isActive",
                                   IsActiveArgs(services[1]), FALSE))
          /\ UNCHANGED <<errorMsg, statusText, userSelectValue>>
  /\ UNCHANGED <<currentUser, rawCrontab, parsedLines, toDeleteIndex, events,
                 confirmText, exprArg, validResult>>

\* after  await cockpit.spawn(["systemctl","is-active",s])
ResumeIsActive(task, resp) ==
  /\ task.pc = "isActive"
  /\ IF resp.state = "ok" /\ Trim(resp.out) = W_active
     THEN /\ errorMsg' = ""
          /\ InitLoad(task)
     ELSE IF task.argv[3] = services[1]
     THEN /\ Continued(task, Issue(task, "isActive",
                                   IsActiveArgs(services[2]), FALSE))
          /\ UNCHANGED <<errorMsg, statusText, userSelectValue>>
     ELSE /\ errorMsg' = "No system cron service is reported as active"
          /\ InitLoad(task)
  /\ UNCHANGED <<currentUser, rawCrontab, parsedLines, toDeleteIndex, events,
                 confirmText, exprArg, validResult>>

ResumeProbe(task, resp) ==
  \/ ResumeWhichCrontab(task, resp)
  \/ ResumeWhichSystemctl(task, resp)
  \/ ResumeIsActive(task, resp)

ProbeAnsweredWith(task, answer) ==
  /\ hostCrontab' = answer.crontab
  /\ hostFiles' = answer.files
  /\ mktempCount' = answer.count
  /\ UNCHANGED hostHasCrontab
  /\ ResumeProbe(task, answer.resp)

ProbeAnswered ==
  \E task \in InFlight :
    \E answer \in HostAnswers(task.argv) : ProbeAnsweredWith(task, answer)

\* init() has detected the user, or has not, and has reached
\* checkCronAvailable's  await cockpit.spawn(["which","crontab"])
InitProbe ==
  /\ currentUser \in {id.current : id \in Identities}
  /\ userSelectValue = <<>>
  /\ tasks = SetToBag({Issue([FreeTask EXCEPT !.caller = "init"],
                             "whichCrontab", WhichArgs(W_crontab), FALSE)})
  /\ rawCrontab = <<>>
  /\ parsedLines = <<>>
  /\ toDeleteIndex = NoIndex
  /\ statusText = "Checking"
  /\ errorMsg = ""
  /\ hostHasCrontab \in BOOLEAN
  /\ \E file \in InitialCrontabs :
       hostCrontab = [u \in Users |->
                        IF ~hostHasCrontab THEN NoFile
                        ELSE IF u = Root THEN FileOf(CrontabOfRoot) ELSE file]
  /\ hostFiles = {}
  /\ mktempCount = 0
  /\ events = 0
  /\ confirmText = <<>>
  /\ exprArg = <<>>
  /\ validResult = "unset"

NextProbe ==
  \/ ProbeAnswered
  \/ Next

SpecProbe == InitProbe /\ [][NextProbe]_vars

(***************************************************************************)
(* A load that the host refuses with "no crontab for <user>"               *)
(***************************************************************************)
W_NoCrontabFor ==
  <<"N", "O", " ", "C", "R", "O", "N", "T", "A", "B", " ", "F", "O", "R">>

\* accounts of a host, one of them named with a word of isAccessDenied
Authorization == W_authorization
AccountNames == {Alice, Root, Authorization}

\* what crontab -l prints for an account without a crontab
NoCrontabTexts(user) ==
  {W_noCrontabFor \o <<" ">> \o user, W_NoCrontabFor \o <<" ">> \o user}

InitLoadFailure ==
  /\ currentUser = Alice
  /\ userSelectValue \in AccountNames
  /\ tasks = SetToBag(
       {[Issue([FreeTask EXCEPT !.caller = "refresh"], "load",
               LoadArgs(userSelectValue), userSelectValue # Alice)
         EXCEPT !.userFlag = userSelectValue]})
  /\ rawCrontab \in {<<>>, CrontabOfAlice}
  /\ parsedLines = IF rawCrontab = <<>> THEN <<>> ELSE parseCrontab(rawCrontab)
  /\ toDeleteIndex = NoIndex
  /\ statusText = "Loading"
  /\ errorMsg \in {"", "Failed to read crontab"}
  /\ hostCrontab = [u \in Users |-> NoFile]
  /\ hostFiles = {}
  /\ mktempCount = 0
  /\ hostHasCrontab = TRUE
  /\ events = 0
  /\ confirmText = <<>>
  /\ exprArg = <<>>
  /\ validResult = "unset"

\* the host answers task's crontab -l with message, and loadCrontab goes on
LoadRefused(task, message) ==
  /\ ResumeLoad(task, ErrResp(message, <<>>))
  /\ UNCHANGED <<hostCrontab, hostFiles, mktempCount, hostHasCrontab>>

LoadRefusedStep ==
  \E task \in InFlight :
    \E message \in NoCrontabTexts(CrontabTarget(task.argv)) :
      LoadRefused(task, message)

NextLoadFailure ==
  \/ LoadRefusedStep
  \/ RefreshClick
  \/ \E in \in AddFormInputs : AddFormSubmit(in.expr, in.cmd)

SpecLoadFailure == InitLoadFailure /\ [][NextLoadFailure]_vars

(***************************************************************************)
(* The document laws: a load of any short text, then add and delete        *)
(* requests on the document it gives.  The installs they start stay at     *)
(* their first await.                                                      *)
(***************************************************************************)
DocAlphabet == {"a", "#", " ", NL, CR}

InitDoc ==
  /\ currentUser = Alice
  /\ userSelectValue = Alice
  /\ tasks = SetToBag(
       {LoadCall([FreeTask EXCEPT !.caller = "init"], "load", userSelectValue)})
  /\ rawCrontab = <<>>
  /\ parsedLines = <<>>
  /\ toDeleteIndex = NoIndex
  /\ statusText = "Loading"
  /\ errorMsg = ""
  /\ \E text \in TextsUpTo(DocAlphabet, MaxTextLen) :
       hostCrontab = [u \in Users |->
                        IF u = Root THEN FileOf(CrontabOfRoot) ELSE FileOf(text)]
  /\ hostFiles = {}
  /\ mktempCount = 0
  /\ hostHasCrontab = TRUE
  /\ events = 0
  /\ confirmText = <<>>
  /\ exprArg = <<>>
  /\ validResult = "unset"

LoadAnswered ==
  \E task \in InFlight : task.pc = "load" /\ Answered(task)

NextDoc ==
  \/ LoadAnswered
  \/ \E in \in AddFormInputs : AddFormSubmit(in.expr, in.cmd)
  \/ \E index \in 0..(Len(parsedLines) - 1) : ConfirmDelete(index)
  \/ ConfirmYes

SpecDoc == InitDoc /\ [][NextDoc]_vars

(***************************************************************************)
(* validateCron applied to any short expression                            *)
(***************************************************************************)
ExprAlphabet == {"*", " "}

InitValidator ==
  /\ exprArg \in TextsUpTo(ExprAlphabet, MaxExprLen)
  /\ confirmText = <<>>
  /\ validResult = "unset"
  /\ currentUser = Alice
  /\ userSelectValue = Alice
  /\ tasks = EmptyBag
  /\ rawCrontab = <<>>
  /\ parsedLines = <<>>
  /\ toDeleteIndex = NoIndex
  /\ statusText = ""
  /\ errorMsg = ""
  /\ hostCrontab = [u \in Users |-> NoFile]
  /\ hostFiles = {}
  /\ mktempCount = 0
  /\ hostHasCrontab = TRUE
  /\ events = 0

ApplyValidateCron ==
  /\ validResult = "unset"
  /\ validResult' = IF validateCron(exprArg) THEN "valid" ELSE "invalid"
  /\ UNCHANGED <<exprArg, sessionVars>>

NextValidator == ApplyValidateCron

SpecValidator == InitValidator /\ [][NextValidator]_vars

(***************************************************************************)
(* Properties                                                              *)
(***************************************************************************)
InstallStages == {"mktemp", "write", "install", "rm", "reload"}

\* installCrontab is called in this step, and task is its frame
InstallCalled(task) ==
  /\ task.pc = "mktemp"
  /\ CopiesIn(task, tasks') > CopiesIn(task, tasks)

\* task returns in this step
Returns(task) ==
  /\ CopiesIn(task, tasks') < CopiesIn(task, tasks)
  /\ BagCardinality(tasks') < BagCardinality(tasks)

\* the lines of a text, its last line feed ending the last line
DocLines(text) ==
  LET lines == SplitLines(text)
  IN IF lines[Len(lines)] = <<>> THEN SubSeq(lines, 1, Len(lines) - 1)
     ELSE lines

\* C1: a temp file exists on the host only while the install run that
\* created it is in flight: once a run has reported its outcome, whether
\* success or failure, its temp file is gone.
TempFileRemovedAtOutcome ==
  \A f \in hostFiles : \E task \in InFlight : task.tmp = f.path

\* C2: at most one install run is in flight: a mutation requested while a
\* run has not finished starts no second run.
AtMostOneInstallInFlight ==
  \A task \in InFlight :
    task.pc \in InstallStages =>
      /\ CopiesIn(task, tasks) = 1
      /\ \A other \in InFlight :
           other.pc \in InstallStages => other = task

\* C3: a load response whose target user is not the user selected when it
\* is applied leaves rawCrontab and parsedLines as they are.
StaleLoadDiscarded ==
  [][\A task \in InFlight :
       (/\ task.pc \in {"load", "reload"}
        /\ Returns(task)
        /\ task.userFlag # getUserForCrontabFlag)
       => UNCHANGED <<rawCrontab, parsedLines>>]_vars

\* C4: the content an add or a delete hands to installCrontab is the loaded
\* document's lines in order, with the one line appended or the one line
\* removed, and nothing else dropped or added.
MutationKeepsOtherLines ==
  [][\A task \in BagToSet(tasks') :
       InstallCalled(task) =>
         /\ task.caller = "addEntry" =>
              DocLines(task.newContent) =
                Append(DocLines(rawCrontab), AddLine(task.expr, task.cmd))
         /\ task.caller = "deleteEntryAt" =>
              DocLines(task.newContent) =
                RemoveAt(DocLines(rawCrontab), task.parsedIndex)]_vars

\* C5: every command of an install run invokes one of the fixed
\* executables, and no argument of it holds the document body.
CommandsAreFixedExecutables ==
  \A task \in InFlight :
    task.pc \in InstallStages =>
      /\ task.argv[1] \in {W_crontab, W_systemctl, W_mktemp, W_rm}
      /\ \A k \in 1..Len(task.argv) : ~Contains(task.argv[k], task.newContent)

\* C6: once the write step has succeeded, the temp file holds exactly the
\* content passed to installCrontab.
WriteStoresContent ==
  \A task \in InFlight :
    (task.pc = "install" /\ FileExists(hostFiles, task.tmp)) =>
      FileContent(hostFiles, task.tmp) = task.newContent

\* C7: the content addEntry produces has the loaded document's lines,
\* unchanged, as its first lines, and exactly one further line: the entry
\* expr.trim() + " " + cmd.trim().
AppendKeepsPrefix ==
  [][\A task \in BagToSet(tasks') :
       (InstallCalled(task) /\ task.caller = "addEntry") =>
         LET old == DocLines(rawCrontab)
             new == DocLines(task.newContent)
         IN /\ Len(new) = Len(old) + 1
            /\ SubSeq(new, 1, Len(old)) = old
            /\ new[Len(new)] = AddLine(task.expr, task.cmd)
            /\ LineType(new[Len(new)]) = "entry"]_vars

\* C8: the content deleteEntryAt(i) produces for a document of n lines,
\* parsed again, has n - 1 lines: the document's lines other than line i,
\* in their order.
DeleteIsPrecise ==
  [][\A task \in BagToSet(tasks') :
       (/\ InstallCalled(task)
        /\ task.caller = "deleteEntryAt"
        /\ task.parsedIndex \in 0..(Len(parsedLines) - 1))
       => LET again == parseCrontab(task.newContent)
          IN /\ Len(again) = Len(parsedLines) - 1
             /\ LineTexts(again) =
                  LineTexts(RemoveAt(parsedLines, task.parsedIndex))]_vars

HasCR(text) == \E k \in 1..Len(text) : text[k] = CR

\* C9: for a loaded text with \n line endings, serializing the parsed lines
\* gives the text back, with one line feed at its end if it had none; and
\* every text, the empty one too, parses to lines of the three kinds.
RoundTrip ==
  (statusText = "Crontab loaded" /\ ~HasCR(rawCrontab)) =>
    /\ Serialize(parsedLines) = EditorContent(rawCrontab)
    /\ \A k \in 1..Len(parsedLines) :
         parsedLines[k].type \in {"blank", "comment", "entry"}

\* the fields of an expression: its maximal runs without white space
FieldCount(s) ==
  Cardinality({k \in 1..Len(s) :
                 ~IsSpace(s[k]) /\ (k = 1 \/ IsSpace(s[k - 1]))})

NoCommandIssued ==
  \A task \in BagToSet(tasks') : CopiesIn(task, tasks') <= CopiesIn(task, tasks)

\* the step leaves the host as it is
HostUntouched == UNCHANGED <<hostCrontab, hostFiles, mktempCount>>

\* C11: an add request whose schedule does not have 5 to 7 fields is
\* rejected on the spot: the step issues no command, starts no install run,
\* and leaves rawCrontab and parsedLines as they are.
InvalidAddRejected ==
  [][\A in \in AddFormInputs :
       (AddFormSubmit(in.expr, in.cmd) /\ FieldCount(in.expr) \notin 5..7)
         => /\ tasks' = tasks
            /\ NoCommandIssued
            /\ HostUntouched
            /\ UNCHANGED <<rawCrontab, parsedLines>>]_vars

\* an add request with a schedule of four fields has been rejected
InvalidAddSeen ==
  /\ errorMsg = "Invalid cron expression."
  /\ events > 0

\* C12: a confirmed deletion whose index is not an index of parsedLines when
\* deleteEntryAt runs is refused: the step issues no command to the host and
\* starts no install run.
OutOfBoundsDeleteRefused ==
  [][(ConfirmYes /\ (toDeleteIndex < 0 \/ toDeleteIndex >= Len(parsedLines)))
       => (tasks' = tasks /\ NoCommandIssued)]_vars

LoadOrInstallStages == InstallStages \cup {"load"}

\* task's command is issued in this step
Issued(task) == CopiesIn(task, tasks') > CopiesIn(task, tasks)

\* the selected user is set and is not the current user
SelectedIsOther(selected, current) == selected # <<>> /\ selected # current

\* C13: a command of a load or of an install run is issued with elevation
\* exactly when, as it is issued, a user is selected and that user is not
\* the current user.
ElevationWhenOtherUser ==
  /\ \A task \in InFlight :
       task.pc \in LoadOrInstallStages =>
         (task.superuser <=> SelectedIsOther(userSelectValue, currentUser))
  /\ [][\A task \in BagToSet(tasks') :
          (Issued(task) /\ task.pc \in LoadOrInstallStages) =>
            (task.superuser <=> SelectedIsOther(userSelectValue', currentUser'))
       ]_vars

\* the crontab-replace command of an install run for another user is in
\* flight, issued with elevation
ElevatedInstallSeen ==
  \E task \in InFlight :
    /\ task.pc = "install"
    /\ task.superuser
    /\ SelectedIsOther(userSelectValue, currentUser)

\* the host refuses task's command for lack of privilege
Denies(answer) ==
  answer.resp.state = "err" /\ answer.resp.problem = W_accessDenied

\* C14: when a stage of an install run is refused for lack of privilege, the
\* run ends there: it issues no further command, the refusal is reported as
\* missing admin access, and rawCrontab and parsedLines are what they were;
\* no stage before the reload changes them either.
AccessDeniedAborts ==
  [][\A task \in InFlight : \A answer \in HostAnswers(task.argv) :
       (task.pc \in InstallStages /\ AnsweredWith(task, answer)) =>
         /\ Denies(answer) =>
              /\ tasks' = tasks (-) SetToBag({task})
              /\ errorMsg' \in {"Admin access required to write crontab",
                                "Admin access required to read crontab"}
              /\ UNCHANGED <<rawCrontab, parsedLines>>
         /\ task.pc # "reload" => UNCHANGED <<rawCrontab, parsedLines>>]_vars

\* an install run has ended at a refused stage after its temp file was made
AccessDeniedSeen ==
  /\ statusText = "Install failed"
  /\ errorMsg = "Admin access required to write crontab"
  /\ hostFiles # {}

\* C15: a load refused with a text that holds "no crontab for <user>", in
\* any letter case, gives the empty document and reports no error: it is
\* never taken for a missing privilege or for a failure to read.
NoCrontabIsEmptyDocument ==
  [][\A task \in InFlight :
       \A message \in NoCrontabTexts(CrontabTarget(task.argv)) :
         LoadRefused(task, message) =>
           /\ rawCrontab' = <<>>
           /\ parsedLines' = <<>>
           /\ statusText' = "No crontab"
           /\ errorMsg' = errorMsg]_vars

\* C16: when mktemp, the write and the crontab-replace of an install run
\* have succeeded and only the rm command fails, the run is not reported
\* as 'Install failed' and it goes on to reload.
CleanupFailureNotEscalated ==
  [][\A task \in InFlight : \A answer \in HostAnswers(task.argv) :
       (task.pc = "rm" /\ answer.resp.state = "err"
          /\ AnsweredWith(task, answer)) =>
         /\ statusText' # "Install failed"
         /\ \E next \in BagToSet(tasks') : next.pc = "reload" /\ Issued(next)
    ]_vars

ProbeStages == {"whichCrontab", "whichSystemctl", "isActive"}

\* checkCronAvailable has ended
ProbeDone == \A task \in InFlight : task.pc \notin ProbeStages

\* C17: on a host without the crontab executable, once the probe has found
\* it missing, no request of the session issues a crontab command.
NoCrontabCommandWhenMissing ==
  [][(~hostHasCrontab /\ ProbeDone) =>
       \A task \in BagToSet(tasks') :
         Issued(task) => task.argv[1] # W_crontab]_vars

\* the stage that follows a stage of installCrontab, and its executable
NextStage(pc) ==
  CASE pc = "mktemp" -> "write"
    [] pc = "write" -> "install"
    [] pc = "install" -> "rm"
    [] pc = "rm" -> "reload"
    [] OTHER -> "none"

StageExecutable(pc) ==
  CASE pc = "mktemp" -> W_mktemp
    [] pc = "write" -> W_sh
    [] pc = "install" -> W_crontab
    [] pc = "rm" -> W_rm
    [] pc = "reload" -> W_crontab
    [] OTHER -> <<>>

\* C18: an install run issues mktemp, the write, the crontab-replace, rm and
\* the reload's crontab -l in this order, each one in the step that observes
\* the answer to the one before; a run whose mktemp fails or prints no path
\* ends without another command.
StagesInOrder ==
  [][/\ \A task \in InFlight : \A answer \in HostAnswers(task.argv) :
          (task.pc \in {"mktemp", "write", "install", "rm"}
             /\ AnsweredWith(task, answer)) =>
            /\ \/ tasks' = tasks (-) SetToBag({task})
               \/ \E next \in BagToSet(tasks') :
                    /\ tasks' = (tasks (-) SetToBag({task})) (+) SetToBag({next})
                    /\ answer.resp.state = "ok"
                    /\ next.pc = NextStage(task.pc)
                    /\ next.argv[1] = StageExecutable(next.pc)
                    /\ (next.pc = "reload") = (next.argv[Len(next.argv)] = W_l)
            /\ (task.pc = "mktemp"
                  /\ (answer.resp.state = "err" \/ Trim(answer.resp.out) = <<>>))
                 => tasks' = tasks (-) SetToBag({task})
     /\ \A next \in BagToSet(tasks') :
          (Issued(next) /\ next.pc \in {"write", "install", "rm", "reload"}) =>
            \E task \in InFlight :
              /\ NextStage(task.pc) = next.pc
              /\ tasks' = (tasks (-) SetToBag({task})) (+) SetToBag({next})
     /\ \A next \in BagToSet(tasks') :
          (Issued(next) /\ next.pc = "mktemp") =>
            next.argv[1] = StageExecutable("mktemp")]_vars

\* a run has gone through all its stages and awaits its reload
ReloadStageSeen ==
  \E task \in InFlight :
    task.pc = "reload" /\ task.tmp # <<>> /\ ~FileExists(hostFiles, task.tmp)

\* C19: when the reload that ends a successful install run fails, the
\* failure is reported as a failure to load (or, for a missing crontab, as
\* the empty document, with the error display left as it was), and the step
\* does not report 'Install failed'.
ReloadFailureIsNotInstallFailure ==
  [][\A task \in InFlight : \A answer \in HostAnswers(task.argv) :
       (task.pc = "reload" /\ answer.resp.state = "err"
          /\ AnsweredWith(task, answer)) =>
         /\ statusText' \in {"Permission denied", "No crontab",
                             "Error loading crontab"}
         /\ IF statusText' = "No crontab" THEN errorMsg' = errorMsg
            ELSE errorMsg' \in {"Admin access required to read crontab",
                                "Failed to read crontab"}
         /\ tasks' = tasks (-) SetToBag({task})]_vars

\* the one install run of the session has replaced alice's crontab and
\* removed its temp file, and its reload has failed: the document is still
\* the one loaded at the start
ReloadFailureSeen ==
  /\ statusText = "Error loading crontab"
  /\ events = 1
  /\ mktempCount = 1
  /\ hostFiles = {}
  /\ tasks = EmptyBag
  /\ rawCrontab = CrontabOfAlice
  /\ hostCrontab[Alice].content # CrontabOfAlice

\* C20: the commands of an install run are those for the user that was
\* selected when the run was requested: the crontab-replace command acts on
\* that user's crontab, and mktemp, the write, the crontab-replace and rm are
\* elevated as that user requires.
TargetFixedAtRequest ==
  \A task \in InFlight :
    /\ task.pc = "install" =>
         task.argv = InstallArgs(task.requestedFor, task.tmp)
    /\ task.pc \in {"mktemp", "write", "install", "rm"} =>
         (task.superuser <=> DifferentUserOf(task.requestedFor, currentUser))

\* C21: the line a confirmed deletion removes is the line shown in the
\* confirmation prompt: when deleteEntryAt runs with an index of parsedLines,
\* the line at that index is an entry and has the text the prompt showed.
DeletesConfirmedLine ==
  [][(ConfirmYes /\ toDeleteIndex \in 0..(Len(parsedLines) - 1)) =>
       /\ parsedLines[toDeleteIndex + 1].text = confirmText
       /\ parsedLines[toDeleteIndex + 1].type = "entry"]_vars

====
